---- MODULE Spec2Model ----
(***************************************************************************)
(* Model of src/mongoapi.py: the natural-language -> MongoDB query        *)
(* pipeline (generate_query, execute_query, format_results, query), the   *)
(* BSON normaliser convert_to_json_compatible and the /api/query handler.  *)
(***************************************************************************)
EXTENDS Integers, Sequences, FiniteSets, TLC

(***************************************************************************)
(* Python values.  Every value is a record of one shape so that any two   *)
(* values can be compared:                                                 *)
(*   t     the Python type: "int", "str", "none", "oid" (bson.ObjectId),   *)
(*         "bin" (bson.Binary), "list", "dict"                             *)
(*   s     the text of a str, the 24-hex text of an ObjectId, the bytes of *)
(*         a Binary                                                        *)
(*   n     the number of an int                                            *)
(*   keys  the keys of a dict, in insertion order                          *)
(*   items the elements of a list, or the values of a dict (items[i] is    *)
(*         the value under keys[i])                                        *)
(***************************************************************************)
PyInt(n) == [t |-> "int", s |-> "", n |-> n, keys |-> <<>>, items |-> <<>>]
PyStr(s) == [t |-> "str", s |-> s, n |-> 0, keys |-> <<>>, items |-> <<>>]
PyNone == [t |-> "none", s |-> "", n |-> 0, keys |-> <<>>, items |-> <<>>]
ObjectId(hex) == [t |-> "oid", s |-> hex, n |-> 0, keys |-> <<>>, items |-> <<>>]
Binary(bytes) == [t |-> "bin", s |-> bytes, n |-> 0, keys |-> <<>>, items |-> <<>>]
PyList(items) == [t |-> "list", s |-> "", n |-> 0, keys |-> <<>>, items |-> items]
PyDict(keys, items) == [t |-> "dict", s |-> "", n |-> 0, keys |-> keys, items |-> items]

IsDict(v) == v.t = "dict"
IsList(v) == v.t = "list"

\* k in d, for a dict d
HasKey(d, k) == \E i \in 1..Len(d.keys) : d.keys[i] = k
\* d[k], for a dict d that has the key k
GetKey(d, k) == d.items[CHOOSE i \in 1..Len(d.keys) : d.keys[i] = k]

\* sep.join(strs)
RECURSIVE JoinWith(_, _)
JoinWith(strs, sep) ==
    IF Len(strs) = 0 THEN ""
    ELSE IF Len(strs) = 1 THEN strs[1]
    ELSE strs[1] \o sep \o JoinWith(Tail(strs), sep)

\* repr(v)
RECURSIVE PyRepr(_)
PyRepr(v) ==
    CASE v.t = "int" -> ToString(v.n)
      [] v.t = "str" -> "'" \o v.s \o "'"
      [] v.t = "none" -> "None"
      [] v.t = "oid" -> "ObjectId('" \o v.s \o "')"
      [] v.t = "bin" -> "Binary(b'" \o v.s \o "', 0)"
      [] v.t = "list" ->
           "[" \o JoinWith([i \in 1..Len(v.items) |-> PyRepr(v.items[i])], ", ") \o "]"
      [] v.t = "dict" ->
           "{" \o JoinWith([i \in 1..Len(v.keys) |->
                              "'" \o v.keys[i] \o "': " \o PyRepr(v.items[i])], ", ") \o "}"

\* str(v), which is also what an f-string puts in place of {v}
PyToStr(v) ==
    CASE v.t = "str" -> v.s
      [] v.t = "oid" -> v.s
      [] v.t = "bin" -> "b'" \o v.s \o "'"
      [] OTHER -> PyRepr(v)

(***************************************************************************)
(* convert_to_json_compatible (lines 14-23)                                *)
(***************************************************************************)
RECURSIVE convert_to_json_compatible(_)
\* a normaliser that does not descend into lists
convert_skipping_lists(data) ==
    IF IsDict(data)
    THEN PyDict(data.keys,
                [i \in 1..Len(data.items) |-> convert_to_json_compatible(data.items[i])])
    ELSE IF data.t = "oid" \/ data.t = "bin"
    THEN PyStr(PyToStr(data))
    ELSE data

\* a normaliser whose last branch returns str(data)
convert_stringifying_rest(data) ==
    IF IsDict(data)
    THEN PyDict(data.keys,
                [i \in 1..Len(data.items) |-> convert_to_json_compatible(data.items[i])])
    ELSE IF IsList(data)
    THEN PyList([i \in 1..Len(data.items) |-> convert_to_json_compatible(data.items[i])])
    ELSE PyStr(PyToStr(data))

convert_to_json_compatible(data) ==
    IF IsDict(data)
    THEN PyDict(data.keys,
                [i \in 1..Len(data.items) |-> convert_to_json_compatible(data.items[i])])
    ELSE IF IsList(data)
    THEN PyList([i \in 1..Len(data.items) |-> convert_to_json_compatible(data.items[i])])
    ELSE IF data.t = "oid" \/ data.t = "bin"
    THEN PyStr(PyToStr(data))
    ELSE data

(***************************************************************************)
(* Outcome of a call: a returned value, or a raised Exception with its     *)
(* str() text.                                                             *)
(***************************************************************************)
Return(v) == [raised |-> FALSE, value |-> v, msg |-> ""]
Raise(msg) == [raised |-> TRUE, value |-> PyNone, msg |-> msg]

Envelope(status, message, data) ==
    PyDict(<<"status", "message", "data">>, <<PyStr(status), PyStr(message), data>>)

(***************************************************************************)
(* format_results (lines 101-132)                                          *)
(***************************************************************************)
\* the first key a row lacks among "_id", "count", in the order line 114 reads them
MissingGroupKey(row) == IF ~HasKey(row, "_id") THEN "_id" ELSE "count"
IsGroupRow(row) == HasKey(row, "_id") /\ HasKey(row, "count")

\* a cleaning that drops "_id" only
CleanRow_keeping_version(result) ==
    LET keep == SelectSeq([i \in 1..Len(result.keys) |-> i],
                          LAMBDA i : result.keys[i] # "_id")
    IN PyDict([j \in 1..Len(keep) |-> result.keys[keep[j]]],
              [j \in 1..Len(keep) |-> result.items[keep[j]]])

\* {k: v for k, v in result.items() if k not in ["_id", "__v"]}  (line 125)
CleanRow(result) ==
    LET keep == SelectSeq([i \in 1..Len(result.keys) |-> i],
                          LAMBDA i : result.keys[i] \notin {"_id", "__v"})
    IN PyDict([j \in 1..Len(keep) |-> result.keys[keep[j]]],
              [j \in 1..Len(keep) |-> result.items[keep[j]]])

\* a formatter that tests the grouped shape before the count shape
format_results_group_first(results) ==
    IF Len(results) = 0
    THEN Return(Envelope("success", "No matches found", PyList(<<>>)))
    ELSE IF HasKey(results[1], "_id") /\ HasKey(results[1], "count")
            /\ \A i \in 1..Len(results) : IsGroupRow(results[i])
    THEN Return(Envelope("success", "Group results",
           PyList([i \in 1..Len(results) |->
                     PyDict(<<"group", "count">>,
                            <<GetKey(results[i], "_id"), GetKey(results[i], "count")>>)])))
    ELSE IF Len(results) = 1 /\ HasKey(results[1], "total")
    THEN Return(Envelope("success",
                         "Count: " \o PyToStr(GetKey(results[1], "total")) \o " matches",
                         PyList(results)))
    ELSE Return(Envelope("success", "Found " \o ToString(Len(results)) \o " matches",
                         PyList([i \in 1..Len(results) |-> CleanRow(results[i])])))

format_results(results) ==
    IF Len(results) = 0
    THEN Return(Envelope("success", "No matches found", PyList(<<>>)))
    ELSE IF Len(results) = 1 /\ HasKey(results[1], "total")
    THEN Return(Envelope("success",
                         "Count: " \o PyToStr(GetKey(results[1], "total")) \o " matches",
                         PyList(results)))
    ELSE IF Len(results) > 0 /\ HasKey(results[1], "_id") /\ HasKey(results[1], "count")
    THEN IF \A i \in 1..Len(results) : IsGroupRow(results[i])
         THEN Return(Envelope("success", "Group results",
                PyList([i \in 1..Len(results) |->
                          PyDict(<<"group", "count">>,
                                 <<GetKey(results[i], "_id"), GetKey(results[i], "count")>>)])))
         ELSE LET bad == CHOOSE i \in 1..Len(results) :
                            /\ ~IsGroupRow(results[i])
                            /\ \A j \in 1..(i - 1) : IsGroupRow(results[j])
              IN Raise("'" \o MissingGroupKey(results[bad]) \o "'")
    ELSE LET cleaned_results ==
                 LET dicts == SelectSeq(results, IsDict)
                 IN [i \in 1..Len(dicts) |-> CleanRow(dicts[i])]
         IN Return(Envelope("success",
                            "Found " \o ToString(Len(cleaned_results)) \o " matches",
                            PyList(cleaned_results)))

(***************************************************************************)
(* The text of a model reply, as the sequence of its lexical chunks:       *)
(*   "fencejson"  the marker ```json        "fence"  the marker ```        *)
(*   "space"      a run of white space                                     *)
(*   "doc"        any other run of text: a JSON document whose syntax tree *)
(*                is ast when ok, and text that is no JSON when ~ok        *)
(***************************************************************************)
FenceJson == [k |-> "fencejson", ok |-> FALSE, ast |-> PyNone]
Fence == [k |-> "fence", ok |-> FALSE, ast |-> PyNone]
Space == [k |-> "space", ok |-> FALSE, ast |-> PyNone]
Doc(ast) == [k |-> "doc", ok |-> TRUE, ast |-> ast]
Prose == [k |-> "doc", ok |-> FALSE, ast |-> PyNone]

\* str.strip()
RECURSIVE LStrip(_)
LStrip(text) ==
    IF Len(text) > 0 /\ text[1].k = "space" THEN LStrip(Tail(text)) ELSE text
RECURSIVE RStrip(_)
RStrip(text) ==
    IF Len(text) > 0 /\ text[Len(text)].k = "space"
    THEN RStrip(SubSeq(text, 1, Len(text) - 1))
    ELSE text
Strip(text) == RStrip(LStrip(text))

\* str.replace(marker, '')
Remove(text, marker) == SelectSeq(text, LAMBDA c : c.k # marker)

\* json.loads(text): the Python value of the one document, or JSONDecodeError
json_loads(text) ==
    LET body == Strip(text)
    IN IF Len(body) = 0 \/ ~body[1].ok
       THEN Raise("Expecting value: line 1 column 1 (char 0)")
       ELSE IF Len(body) > 1
       THEN Raise("Extra data: line 1 column 2 (char 1)")
       ELSE Return(body[1].ast)

\* ollama.chat(...) either fails (raised, msg) or returns a reply whose
\* ['message']['content'] is the text
ChatFails(msg) == [raised |-> TRUE, msg |-> msg, content |-> <<>>]
ChatReplies(text) == [raised |-> FALSE, msg |-> "", content |-> text]

(***************************************************************************)
(* generate_query (lines 70-81), given the outcome of ollama.chat          *)
(***************************************************************************)
generate_query(response) ==
    LET parsed == json_loads(Strip(Remove(Remove(Strip(response.content),
                                                 "fencejson"), "fence")))
        e == IF response.raised THEN response.msg ELSE parsed.msg
    IN IF ~response.raised /\ ~parsed.raised
       THEN Return(parsed.value)
       ELSE Raise("Query generation error: " \o e)

(***************************************************************************)
(* execute_query (lines 86-99)                                             *)
(***************************************************************************)
\* type(v).__name__ for the values json.loads yields
PyTypeName(v) == IF v.t = "none" THEN "NoneType" ELSE v.t

\* sub in s, for two str
StrContains(s, sub) ==
    \E i \in 1..(Len(s) - Len(sub) + 1) : SubSeq(s, i, i + Len(sub) - 1) = sub

StoreCallOf(mode, arg) == [raised |-> FALSE, msg |-> "", mode |-> mode, arg |-> arg]
CallRaises(msg) == [raised |-> TRUE, msg |-> msg, mode |-> "none", arg |-> PyNone]

\* a dispatch that looks up the whole mapping also when it has "$match"
StoreCall_whole_mapping(query) ==
    IF IsList(query) THEN StoreCallOf("aggregate", query)
    ELSE IF IsDict(query) \/ query.t = "str" THEN StoreCallOf("find", query)
    ELSE CallRaises("argument of type '" \o PyTypeName(query) \o "' is not iterable")

\* lines 89-94: the one store call the query's shape selects, or the TypeError
\* that the test  "$match" in query  or the subscript  query["$match"]  raises
StoreCall(query) ==
    IF IsList(query) THEN StoreCallOf("aggregate", query)
    ELSE IF IsDict(query)
    THEN IF HasKey(query, "$match")
         THEN StoreCallOf("find", GetKey(query, "$match"))
         ELSE StoreCallOf("find", query)
    ELSE IF query.t = "str"
    THEN IF StrContains(query.s, "$match")
         THEN CallRaises("string indices must be integers")
         ELSE StoreCallOf("find", query)
    ELSE CallRaises("argument of type '" \o PyTypeName(query) \o "' is not iterable")

\* the store takes a mapping as a filter and a list of mappings as a pipeline,
\* and the call of lines 90-94 raises on anything else
StoreAccepts(call) ==
    IF call.mode = "find" THEN IsDict(call.arg)
    ELSE /\ IsList(call.arg)
         /\ \A i \in 1..Len(call.arg.items) : IsDict(call.arg.items[i])

\* an executor whose except clause returns no rows instead of raising
execute_query_swallowing(call, storeOutcome) ==
    IF call.raised \/ storeOutcome.raised
    THEN Return(PyList(<<>>))
    ELSE Return(PyList(storeOutcome.rows))

\* lines 86-99: the rows of the store call as a list; a TypeError of lines
\* 89-94 or a failure of the store call is wrapped by the except clause
execute_query(call, storeOutcome) ==
    IF call.raised
    THEN Raise("Query execution error: " \o call.msg)
    ELSE IF storeOutcome.raised
    THEN Raise("Query execution error: " \o storeOutcome.msg)
    ELSE Return(PyList(storeOutcome.rows))

StoreRows(rows) == [raised |-> FALSE, msg |-> "", rows |-> rows]
StoreFails(msg) == [raised |-> TRUE, msg |-> msg, rows |-> <<>>]
StoreRejects(call) ==
    IF call.mode = "find"
    THEN StoreFails("filter must be an instance of dict")
    ELSE StoreFails("Each element of the 'pipeline' array must be an object")

(***************************************************************************)
(* query (lines 134-145) and process_query (lines 176-182)                 *)
(***************************************************************************)
\* an except clause for the two wrapped errors only
query_except_wrapped_only(e) ==
    IF StrContains(e.msg, " error: ")
    THEN Return(Envelope("error", e.msg, PyNone))
    ELSE Raise(e.msg)

\* except Exception as e: return {"status": "error", "message": str(e), "data": None}
query_except(e) == Return(Envelope("error", e.msg, PyNone))

\* lines 179-182; when query(...) raised, line 186 reads the name traceback,
\* which the module never imports, so the handler itself raises and the
\* framework answers with its own 500 page
InternalServerError == PyStr("500 Internal Server Error")
process_query(result) ==
    IF result.raised
    THEN InternalServerError
    ELSE convert_to_json_compatible(result.value)

\* lines 134-145 run alone: the envelope for a chat outcome and a store outcome
query(chatOutcome, storeOutcome) ==
    LET q == generate_query(chatOutcome)
    IN IF q.raised THEN query_except(q)
       ELSE LET call == StoreCall(q.value)
                results == execute_query(call,
                              IF call.raised \/ StoreAccepts(call) THEN storeOutcome
                              ELSE StoreRejects(call))
            IN IF results.raised THEN query_except(results)
               ELSE LET formatted == format_results(results.value.items)
                    IN IF formatted.raised THEN query_except(formatted)
                       ELSE formatted

(***************************************************************************)
(* The server: the module-level query_generator (lines 156-160) shared by  *)
(* the request threads of the Flask app, each running process_query.       *)
(***************************************************************************)
Workers == {"w1", "w2"}

\* the JSON bodies of the requests tried; a field is <<>> when the body lacks it
Bodies ==
    { [query |-> <<"how many pro users">>, collection |-> <<>>],
      [query |-> <<"">>, collection |-> <<"plans">>],
      [query |-> <<>>, collection |-> <<"users">>] }

\* lines 176-177
RequestOf(data) ==
    [user_input |-> data.query[1],
     collection_name |-> IF data.collection = <<>> THEN "users" ELSE data.collection[1]]

\* lines 169-174
MissingQuery == Envelope("error", "Missing 'query' in request body", PyNone)

Pro == PyDict(<<"type">>, <<PyStr("pro")>>)
CountPipeline ==
    PyList(<<PyDict(<<"$match">>, <<Pro>>), PyDict(<<"$count">>, <<PyStr("total")>>)>>)

\* the outcomes of ollama.chat tried
ChatOutcomes ==
    { ChatFails("connection refused"),
      ChatFails(""),
      ChatReplies(<<>>),
      ChatReplies(<<Prose, Space, Doc(Pro)>>),
      ChatReplies(<<Doc(Pro), Space, Doc(Pro)>>),
      ChatReplies(<<FenceJson, Space, Doc(Pro), Space, Fence>>),
      ChatReplies(<<Doc(PyDict(<<"$match", "$limit">>, <<Pro, PyInt(5)>>))>>),
      ChatReplies(<<Space, Fence, Doc(CountPipeline), Fence, Space>>),
      ChatReplies(<<Doc(PyInt(42))>>),
      ChatReplies(<<Doc(PyStr("{$match: {}}"))>>),
      ChatReplies(<<Doc(PyList(<<PyInt(42)>>))>>) }

\* the outcomes of a store call tried
StoreOutcomes ==
    { StoreFails("unknown operator: $foo"),
      StoreFails(""),
      StoreRows(<<>>),
      StoreRows(<<PyDict(<<"total">>, <<PyInt(42)>>)>>),
      StoreRows(<<PyDict(<<"_id", "count">>, <<PyStr("pro"), PyInt(12)>>),
                  PyDict(<<"_id", "count">>, <<PyStr("plus"), PyInt(3)>>)>>),
      StoreRows(<<PyDict(<<"_id", "count">>, <<ObjectId("65a1"), PyInt(12)>>),
                  PyDict(<<"_id", "type">>, <<ObjectId("65a2"), PyStr("plus")>>)>>),
      StoreRows(<<PyDict(<<"_id", "__v", "type", "key">>,
                         <<ObjectId("65a1"), PyInt(2), PyStr("pro"),
                           PyList(<<Binary("k1"), PyDict(<<"ref">>, <<ObjectId("65a3")>>)>>)>>)>>) }

NoChat == ChatReplies(<<>>)
NoStore == StoreRows(<<>>)
NoRequest == [user_input |-> "", collection_name |-> ""]

\* lines 44-74: the model name and the two messages; the system prompt is fixed
\* text around the collection name and the user's text
ChatRequest(model, q) ==
    [model |-> model,
     system |-> <<q.collection_name, q.user_input>>,
     user |-> q.user_input]

\* line 87 and the call of lines 90-94: the call on self.db[collection_name]
OnCollection(db, collection_name, call) ==
    [db |-> db, collection |-> collection_name, mode |-> call.mode, arg |-> call.arg]

\* lines 156-160
query_generator ==
    [client |-> "mongodb://localhost:27017/", db |-> "louperdb", model |-> "llama3.2"]

VARIABLES
    generator,    \* the attributes of query_generator: client, db, model
    pc,           \* per worker: "idle", "rejected" (answered 400), "chat" (in
                  \* ollama.chat), "store" (in the store call), "done" (answered)
    req,          \* per worker: the request being served
    sent,         \* per worker: the chat request sent to ollama.chat
    chat,         \* per worker: the outcome of ollama.chat
    generated,    \* per worker: the outcome of generate_query
    calls,        \* per worker: the store calls made, in order
    store,        \* per worker: the outcome of the store call
    results,      \* per worker: the outcome of execute_query
    formatted,    \* per worker: the arguments format_results was called with, in order
    envelope,     \* per worker: the outcome of query(...)
    response,     \* per worker: the body process_query hands to jsonify
    trace,        \* per worker: the stages query(...) has invoked, in order
    anyFailed,    \* history: some request has ended in an error envelope
    afterFailure, \* history, per worker: the request was received after a failed one
    fmt,          \* format_results on one row list: [stage, rows, out, body]
    norm          \* convert_to_json_compatible on one value: [stage, input, once, twice]

serverVars == <<generator, pc, req, sent, chat, generated, calls, store, results, formatted,
                envelope, response, trace, anyFailed, afterFailure>>
vars == <<generator, pc, req, sent, chat, generated, calls, store, results, formatted,
          envelope, response, trace, anyFailed, afterFailure, fmt, norm>>

NoFmt == [stage |-> "off", rows |-> <<>>, out |-> Return(PyNone), body |-> PyNone]
NoNorm == [stage |-> "off", input |-> PyNone, once |-> PyNone, twice |-> PyNone]

IsError(env) == ~env.raised /\ GetKey(env.value, "status") = PyStr("error")

InitServer ==
    /\ generator = query_generator
    /\ pc = [r \in Workers |-> "idle"]
    /\ req = [r \in Workers |-> NoRequest]
    /\ sent = [r \in Workers |-> ChatRequest("", NoRequest)]
    /\ chat = [r \in Workers |-> NoChat]
    /\ generated = [r \in Workers |-> Return(PyNone)]
    /\ calls = [r \in Workers |-> <<>>]
    /\ store = [r \in Workers |-> NoStore]
    /\ results = [r \in Workers |-> Return(PyNone)]
    /\ formatted = [r \in Workers |-> <<>>]
    /\ envelope = [r \in Workers |-> Return(PyNone)]
    /\ response = [r \in Workers |-> PyNone]
    /\ trace = [r \in Workers |-> <<>>]
    /\ anyFailed = FALSE
    /\ afterFailure = [r \in Workers |-> FALSE]

Init == InitServer /\ fmt = NoFmt /\ norm = NoNorm

\* query(...) returns env (or raises) and process_query answers: lines 139-145, 179-182
Finish(r, env) ==
    /\ envelope' = [envelope EXCEPT ![r] = env]
    /\ response' = [response EXCEPT ![r] = process_query(env)]
    /\ pc' = [pc EXCEPT ![r] = "done"]
    /\ anyFailed' = (anyFailed \/ env.raised \/ IsError(env))

\* the per-request state of worker r at the start of process_query
Reset(r) ==
    /\ chat' = [chat EXCEPT ![r] = NoChat]
    /\ generated' = [generated EXCEPT ![r] = Return(PyNone)]
    /\ calls' = [calls EXCEPT ![r] = <<>>]
    /\ store' = [store EXCEPT ![r] = NoStore]
    /\ results' = [results EXCEPT ![r] = Return(PyNone)]
    /\ formatted' = [formatted EXCEPT ![r] = <<>>]
    /\ envelope' = [envelope EXCEPT ![r] = Return(PyNone)]
    /\ afterFailure' = [afterFailure EXCEPT ![r] = anyFailed]

\* lines 167-179 with the collection handle kept on the shared generator
Receive_keeping_collection(r) ==
    /\ pc[r] \in {"idle", "done", "rejected"}
    /\ \E data \in Bodies :
         IF data.query = <<>>
         THEN /\ req' = [req EXCEPT ![r] = NoRequest]
              /\ response' = [response EXCEPT ![r] = MissingQuery]
              /\ pc' = [pc EXCEPT ![r] = "rejected"]
              /\ trace' = [trace EXCEPT ![r] = <<>>]
              /\ UNCHANGED <<sent, generator>>
         ELSE /\ req' = [req EXCEPT ![r] = RequestOf(data)]
              /\ sent' = [sent EXCEPT ![r] = ChatRequest(generator.model, RequestOf(data))]
              /\ generator' = [generator EXCEPT !.db = RequestOf(data).collection_name]
              /\ response' = [response EXCEPT ![r] = PyNone]
              /\ pc' = [pc EXCEPT ![r] = "chat"]
              /\ trace' = [trace EXCEPT ![r] = <<"generate_query">>]
    /\ Reset(r)
    /\ UNCHANGED <<anyFailed, fmt, norm>>

\* lines 167-179, 137, 71: process_query reads the body; without 'query' it
\* answers 400; otherwise it calls query, which calls generate_query, which sends
\* the prompt to ollama.chat
Receive(r) ==
    /\ pc[r] \in {"idle", "done", "rejected"}
    /\ \E data \in Bodies :
         IF data.query = <<>>
         THEN /\ req' = [req EXCEPT ![r] = NoRequest]
              /\ response' = [response EXCEPT ![r] = MissingQuery]
              /\ pc' = [pc EXCEPT ![r] = "rejected"]
              /\ trace' = [trace EXCEPT ![r] = <<>>]
              /\ UNCHANGED sent
         ELSE /\ req' = [req EXCEPT ![r] = RequestOf(data)]
              /\ sent' = [sent EXCEPT ![r] = ChatRequest(generator.model, RequestOf(data))]
              /\ response' = [response EXCEPT ![r] = PyNone]
              /\ pc' = [pc EXCEPT ![r] = "chat"]
              /\ trace' = [trace EXCEPT ![r] = <<"generate_query">>]
    /\ Reset(r)
    /\ UNCHANGED <<generator, anyFailed, fmt, norm>>

\* lines 71-81, 137-138, 86-94: ollama.chat returns or fails; generate_query parses
\* the reply; on a query, execute_query is called and makes its store call
ChatReturns(r) ==
    /\ pc[r] = "chat"
    /\ \E c \in ChatOutcomes :
         LET q == generate_query(c)
             call == StoreCall(q.value)
         IN /\ chat' = [chat EXCEPT ![r] = c]
            /\ generated' = [generated EXCEPT ![r] = q]
            /\ IF q.raised
               THEN /\ Finish(r, query_except(q))
                    /\ UNCHANGED <<trace, calls, results>>
               ELSE /\ trace' = [trace EXCEPT ![r] = Append(@, "execute_query")]
                    /\ IF call.raised
                       THEN /\ results' = [results EXCEPT ![r] = execute_query(call, NoStore)]
                            /\ Finish(r, query_except(execute_query(call, NoStore)))
                            /\ UNCHANGED calls
                       ELSE /\ calls' = [calls EXCEPT ![r] =
                                        Append(@, OnCollection(generator.db,
                                                               req[r].collection_name, call))]
                            /\ pc' = [pc EXCEPT ![r] = "store"]
                            /\ UNCHANGED <<results, envelope, response, anyFailed>>
    /\ UNCHANGED <<generator, req, sent, store, formatted, afterFailure, fmt, norm>>

\* lines 90-99, 138-145: the store call returns its rows or fails; execute_query
\* returns; on rows, format_results is called; query returns the envelope
StoreReturns(r) ==
    /\ pc[r] = "store"
    /\ \E o \in StoreOutcomes :
         LET call == calls[r][Len(calls[r])]
             outcome == IF StoreAccepts(call) THEN o ELSE StoreRejects(call)
             res == execute_query(StoreCallOf(call.mode, call.arg), outcome)
             f == format_results(res.value.items)
         IN /\ store' = [store EXCEPT ![r] = outcome]
            /\ results' = [results EXCEPT ![r] = res]
            /\ IF res.raised
               THEN /\ Finish(r, query_except(res))
                    /\ UNCHANGED <<trace, formatted>>
               ELSE /\ trace' = [trace EXCEPT ![r] = Append(@, "format_results")]
                    /\ formatted' = [formatted EXCEPT ![r] = Append(@, res.value.items)]
                    /\ Finish(r, IF f.raised THEN query_except(f) ELSE f)
    /\ UNCHANGED <<generator, req, sent, chat, generated, calls, afterFailure, fmt, norm>>

Next ==
    \E r \in Workers : Receive(r) \/ ChatReturns(r) \/ StoreReturns(r)

Spec == Init /\ [][Next]_vars

(***************************************************************************)
(* format_results on every row list of at most MaxRows rows.  A row has    *)
(* any subset of the fields below; its values depend on which fields it    *)
(* has, so that rows differ in their values too.                           *)
(***************************************************************************)
MaxRows == 2

Fields == <<"_id", "type", "total", "count", "__v">>

FieldValue(k, present) ==
    CASE k = "_id" -> IF "__v" \in present THEN ObjectId("65a1") ELSE PyStr("pro")
      [] k = "type" -> IF "count" \in present
                       THEN PyStr("plus")
                       ELSE PyList(<<Binary("k1"), PyDict(<<"ref">>, <<ObjectId("65a3")>>)>>)
      [] k = "total" -> IF "type" \in present THEN PyStr("many") ELSE PyInt(5)
      [] k = "count" -> PyInt(10 + Cardinality(present))
      [] k = "__v" -> PyInt(Cardinality(present))

RowWith(present) ==
    LET ks == SelectSeq(Fields, LAMBDA k : k \in present)
    IN PyDict(ks, [i \in 1..Len(ks) |-> FieldValue(ks[i], present)])

Rows == {RowWith(present) : present \in SUBSET {Fields[i] : i \in 1..Len(Fields)}}

RowLists == UNION {[1..m -> Rows] : m \in 0..MaxRows}

InitFormat ==
    /\ InitServer
    /\ fmt \in {[stage |-> "in", rows |-> rs, out |-> Return(PyNone), body |-> PyNone] :
                   rs \in RowLists}
    /\ norm = NoNorm

\* lines 139-145, 179-182 for one row list: format_results, the except clause of
\* query, and the normalisation of the envelope
Format ==
    /\ fmt.stage = "in"
    /\ LET out == format_results(fmt.rows)
       IN fmt' = [fmt EXCEPT !.stage = "out", !.out = out,
                             !.body = process_query(IF out.raised THEN query_except(out)
                                                    ELSE out)]
    /\ UNCHANGED <<serverVars, norm>>

SpecFormat == InitFormat /\ [][Format]_vars

(***************************************************************************)
(* convert_to_json_compatible on every value nested at most MaxDepth deep. *)
(***************************************************************************)
MaxDepth == 2

Scalars == {PyInt(7), PyStr("pro"), PyNone, ObjectId("65a1"), Binary("k1")}

RECURSIVE Values(_)
Values(d) ==
    IF d = 0 THEN Scalars
    ELSE LET inner == Values(d - 1)
         IN Scalars
            \cup {PyList(<<>>), PyDict(<<>>, <<>>)}
            \cup {PyList(<<x>>) : x \in inner}
            \cup {PyList(<<x, y>>) : x \in inner, y \in Scalars}
            \cup {PyDict(<<"a">>, <<x>>) : x \in inner}
            \cup {PyDict(<<"a", "b">>, <<y, x>>) : x \in inner, y \in Scalars}

InitNorm ==
    /\ InitServer
    /\ fmt = NoFmt
    /\ norm \in {[stage |-> "in", input |-> v, once |-> PyNone, twice |-> PyNone] :
                    v \in Values(MaxDepth)}

\* line 181
Normalize ==
    /\ norm.stage = "in"
    /\ norm' = [norm EXCEPT !.stage = "once", !.once = convert_to_json_compatible(norm.input)]
    /\ UNCHANGED <<serverVars, fmt>>

\* line 181 again, on the value it returned
NormalizeAgain ==
    /\ norm.stage = "once"
    /\ norm' = [norm EXCEPT !.stage = "twice", !.twice = convert_to_json_compatible(norm.once)]
    /\ UNCHANGED <<serverVars, fmt>>

NextNorm == Normalize \/ NormalizeAgain

SpecNorm == InitNorm /\ [][NextNorm]_vars

(***************************************************************************)
(* Properties of convert_to_json_compatible, under SpecNorm                *)
(***************************************************************************)
\* v holds no ObjectId and no Binary at any depth
RECURSIVE NoNative(_)
NoNative(v) ==
    /\ v.t \notin {"oid", "bin"}
    /\ \A i \in 1..Len(v.items) : NoNative(v.items[i])

\* b has the containers of a: the same keys in the same order, the same lengths,
\* every value that is no ObjectId and no Binary in its place
RECURSIVE SameShape(_, _)
SameShape(a, b) ==
    IF a.t \in {"oid", "bin"} THEN b.t = "str"
    ELSE IF a.t \in {"list", "dict"}
    THEN /\ b.t = a.t
         /\ b.keys = a.keys
         /\ Len(b.items) = Len(a.items)
         /\ \A i \in 1..Len(a.items) : SameShape(a.items[i], b.items[i])
    ELSE b = a

\* some ObjectId or Binary lies at least two containers deep in v
DeepNative(v) ==
    \E i \in 1..Len(v.items) : \E j \in 1..Len(v.items[i].items) :
        v.items[i].items[j].t \in {"oid", "bin"}

\* C8: convert_to_json_compatible returns for every nested value, keeps the keys
\* and the order of every container, and leaves no ObjectId or Binary at any depth
C8_Total ==
    norm.stage \in {"once", "twice"} =>
        /\ NoNative(norm.once)
        /\ SameShape(norm.input, norm.once)

C8_Witness ==
    /\ norm.stage = "once"
    /\ IsList(norm.input)
    /\ Len(norm.input.items) = 2
    /\ DeepNative(norm.input)

\* C9: applying convert_to_json_compatible twice gives what applying it once
\* gives, and a value with no ObjectId and no Binary is returned as it is
C9_Idempotent ==
    /\ norm.stage = "twice" => norm.twice = norm.once
    /\ (norm.stage \in {"once", "twice"} /\ NoNative(norm.input)) => norm.once = norm.input

C9_Witness ==
    /\ norm.stage = "twice"
    /\ DeepNative(norm.input)
    /\ norm.once # norm.input

C9_WitnessSafe ==
    /\ norm.stage = "twice"
    /\ IsDict(norm.input)
    /\ Len(norm.input.items) = 2
    /\ NoNative(norm.input)

(***************************************************************************)
(* Properties of format_results, under SpecFormat                          *)
(***************************************************************************)
IsScalarCount(rows) == Len(rows) = 1 /\ HasKey(rows[1], "total")
FirstIsGroup(rows) == Len(rows) > 0 /\ HasKey(rows[1], "_id") /\ HasKey(rows[1], "count")

Status(out) == GetKey(out.value, "status")
Message(out) == GetKey(out.value, "message").s
Data(out) == GetKey(out.value, "data")

\* the text an f-string gives for the values "total" takes here
TotalText(v) == IF v.t = "int" THEN ToString(v.n) ELSE v.s

\* C5: an empty row list gives "No matches found" with data []; otherwise one
\* row with a field "total" gives "Count: <total> matches" with the row list as
\* data, also when that row has "_id" and "count"; only other lists reach the
\* grouped and the plain branch
C5_Priority ==
    fmt.stage = "out" =>
        /\ Len(fmt.rows) = 0 =>
             fmt.out = Return(Envelope("success", "No matches found", PyList(<<>>)))
        /\ (Len(fmt.rows) > 0 /\ IsScalarCount(fmt.rows)) =>
             fmt.out = Return(Envelope("success",
                          "Count: " \o TotalText(GetKey(fmt.rows[1], "total")) \o " matches",
                          PyList(fmt.rows)))
        /\ (Len(fmt.rows) > 0 /\ ~IsScalarCount(fmt.rows)) =>
             \/ fmt.out.raised
             \/ /\ Message(fmt.out) # "No matches found"
                /\ ~StrContains(Message(fmt.out), "Count: ")

C5_Witness ==
    /\ fmt.stage = "out"
    /\ IsScalarCount(fmt.rows)
    /\ FirstIsGroup(fmt.rows)
    /\ Message(fmt.out) = "Count: 5 matches"

\* C6, as claimed: a non-empty list that is no count result and whose first row
\* has "_id" and "count" gives a success envelope with one {group, count} entry
\* per row, in order, whatever the rows after the first hold
C6_GroupedAlways ==
    (fmt.stage = "out" /\ ~IsScalarCount(fmt.rows) /\ FirstIsGroup(fmt.rows)) =>
        /\ ~fmt.out.raised
        /\ Status(fmt.out) = PyStr("success")
        /\ Data(fmt.out).t = "list"
        /\ Len(Data(fmt.out).items) = Len(fmt.rows)
        /\ \A i \in 1..Len(fmt.rows) :
             Data(fmt.out).items[i] =
                 PyDict(<<"group", "count">>,
                        <<GetKey(fmt.rows[i], "_id"), GetKey(fmt.rows[i], "count")>>)

\* the same for the lists whose every row has both fields, where the code agrees
C6_GroupedWellFormed ==
    (fmt.stage = "out" /\ ~IsScalarCount(fmt.rows) /\ FirstIsGroup(fmt.rows)
       /\ \A i \in 1..Len(fmt.rows) : IsGroupRow(fmt.rows[i])) =>
        /\ ~fmt.out.raised
        /\ Status(fmt.out) = PyStr("success")
        /\ Len(Data(fmt.out).items) = Len(fmt.rows)
        /\ \A i \in 1..Len(fmt.rows) :
             Data(fmt.out).items[i] =
                 PyDict(<<"group", "count">>,
                        <<GetKey(fmt.rows[i], "_id"), GetKey(fmt.rows[i], "count")>>)

\* c is row without "_id" and "__v": the other fields, in their order, with their values
IsCleaned(c, row) ==
    /\ IsDict(c)
    /\ \A k \in {Fields[i] : i \in 1..Len(Fields)} :
         HasKey(c, k) <=> (HasKey(row, k) /\ k \notin {"_id", "__v"})
    /\ \A i \in 1..Len(c.keys) : c.items[i] = GetKey(row, c.keys[i])
    /\ \A i, j \in 1..Len(c.keys) :
         i < j => \E a, b \in 1..Len(row.keys) :
                     a < b /\ row.keys[a] = c.keys[i] /\ row.keys[b] = c.keys[j]

\* C7: a list in none of the empty, count and grouped branches gives a success
\* envelope with "Found <n> matches", n the number of rows, and one cleaned row
\* per row, in order
C7_PlainList ==
    (fmt.stage = "out" /\ Len(fmt.rows) > 0 /\ ~IsScalarCount(fmt.rows)
       /\ ~FirstIsGroup(fmt.rows)) =>
        /\ ~fmt.out.raised
        /\ Status(fmt.out) = PyStr("success")
        /\ Message(fmt.out) = "Found " \o ToString(Len(fmt.rows)) \o " matches"
        /\ Data(fmt.out).t = "list"
        /\ Len(Data(fmt.out).items) = Len(fmt.rows)
        /\ \A i \in 1..Len(fmt.rows) : IsCleaned(Data(fmt.out).items[i], fmt.rows[i])

C7_Witness ==
    /\ fmt.stage = "out"
    /\ Len(fmt.rows) = 2
    /\ ~FirstIsGroup(fmt.rows)
    /\ HasKey(fmt.rows[1], "total")
    /\ HasKey(fmt.rows[1], "_id") /\ HasKey(fmt.rows[1], "__v") /\ HasKey(fmt.rows[1], "type")
    /\ IsGroupRow(fmt.rows[2])
    /\ Message(fmt.out) = "Found 2 matches"

(***************************************************************************)
(* Properties of the request pipeline, under Spec                          *)
(***************************************************************************)
StageOrder == <<"generate_query", "execute_query", "format_results">>

\* format_results was called for worker r and raised
FormatterRaised(r) ==
    Len(formatted[r]) > 0 /\ format_results(formatted[r][Len(formatted[r])]).raised

\* the str() of the exception that ended worker r's request
FailureText(r) ==
    IF generated[r].raised THEN generated[r].msg
    ELSE IF results[r].raised THEN results[r].msg
    ELSE format_results(formatted[r][Len(formatted[r])]).msg

IsErrorEnvelope(v) ==
    /\ IsDict(v)
    /\ v.keys = <<"status", "message", "data">>
    /\ GetKey(v, "status") = PyStr("error")
    /\ GetKey(v, "message").t = "str"
    /\ GetKey(v, "message").s # ""
    /\ GetKey(v, "data") = PyNone

\* C1: query(...) never raises, and when generate_query, execute_query or
\* format_results failed it returns {status: "error", message, data: None} with
\* a non-empty message, the text of the failure
C1_NeverRaises ==
    \A r \in Workers :
        pc[r] = "done" =>
            /\ ~envelope[r].raised
            /\ (generated[r].raised \/ results[r].raised \/ FormatterRaised(r)) =>
                 /\ IsErrorEnvelope(envelope[r].value)
                 /\ GetKey(envelope[r].value, "message").s = FailureText(r)

C1_Witness ==
    /\ pc["w1"] = "done" /\ FormatterRaised("w1")
    /\ pc["w2"] = "done" /\ chat["w2"] = ChatFails("")

\* C2: the stages of one request are invoked in the order generate_query,
\* execute_query, format_results, each at most once; execute_query only after
\* generate_query returned a query, format_results only after execute_query
\* returned the store's whole row list, and no stage after one that failed
C2_StageOrder ==
    \A r \in Workers :
        /\ Len(trace[r]) <= Len(StageOrder)
        /\ trace[r] = SubSeq(StageOrder, 1, Len(trace[r]))
        /\ Len(calls[r]) <= 1
        /\ Len(formatted[r]) <= 1
        /\ Len(trace[r]) >= 2 => ~generated[r].raised /\ pc[r] \in {"store", "done"}
        /\ Len(trace[r]) = 3 =>
             /\ pc[r] = "done"
             /\ ~store[r].raised
             /\ ~results[r].raised
             /\ formatted[r] = <<store[r].rows>>
        /\ (pc[r] = "done" /\ generated[r].raised) =>
             trace[r] = <<"generate_query">> /\ calls[r] = <<>> /\ formatted[r] = <<>>
        /\ (pc[r] = "done" /\ (results[r].raised \/ store[r].raised)) =>
             trace[r] = <<"generate_query", "execute_query">> /\ formatted[r] = <<>>

C2_Witness ==
    /\ pc["w1"] = "done" /\ trace["w1"] = StageOrder /\ Len(store["w1"].rows) = 2
    /\ pc["w2"] = "done" /\ store["w2"].raised /\ Len(trace["w2"]) = 2

\* the value is a FilterQuery (a mapping) or a PipelineQuery (a list of mappings)
IsStructuredQuery(v) ==
    \/ IsDict(v)
    \/ IsList(v) /\ \A i \in 1..Len(v.items) : IsDict(v.items[i])

\* C3, as claimed: whatever generate_query returns is a mapping or a list of
\* mappings, so execute_query is never called with a value of another shape
C3_QueryShape ==
    \A r \in Workers :
        (pc[r] \in {"store", "done"} /\ ~generated[r].raised) =>
            IsStructuredQuery(generated[r].value)

\* the part of the claim the code keeps: a failed model call and a reply that
\* is no JSON document fail with the wrapped message
C3_FailuresWrapped ==
    \A r \in Workers :
        (pc[r] = "done" /\ (chat[r].raised \/ json_loads(Strip(Remove(Remove(
             Strip(chat[r].content), "fencejson"), "fence"))).raised)) =>
            /\ generated[r].raised
            /\ StrContains(generated[r].msg, "Query generation error: ")

\* C4: execute_query makes one store call chosen by the query's shape: aggregate
\* with the list as given; find on the value under "$match" when the mapping has
\* that key; find on the whole mapping otherwise; and returns that call's rows
C4_Dispatch ==
    \A r \in Workers :
        LET q == generated[r].value
            on(mode, arg) ==
                <<OnCollection(query_generator.db, req[r].collection_name,
                               StoreCallOf(mode, arg))>>
        IN Len(trace[r]) >= 2 =>
            /\ IsList(q) => calls[r] = on("aggregate", q)
            /\ (IsDict(q) /\ HasKey(q, "$match")) => calls[r] = on("find", GetKey(q, "$match"))
            /\ (IsDict(q) /\ ~HasKey(q, "$match")) => calls[r] = on("find", q)
            /\ (pc[r] = "done" /\ ~results[r].raised) =>
                 results[r].value = PyList(store[r].rows)

C4_Witness ==
    \E r \in Workers :
        /\ pc[r] = "done"
        /\ IsDict(generated[r].value) /\ HasKey(generated[r].value, "$match")
        /\ Len(generated[r].value.keys) = 2
        /\ Len(store[r].rows) = 2
        /\ ~results[r].raised

\* C10: no request changes the shared generator, every request reads it as set
\* at start, and every finished request has the envelope and the body it gets
\* when run alone on its chat outcome and store outcome, after failed requests too
C10_Isolation ==
    /\ generator = query_generator
    /\ \A r \in Workers :
         /\ pc[r] \in {"chat", "store", "done"} =>
              sent[r] = ChatRequest(query_generator.model, req[r])
         /\ \A i \in 1..Len(calls[r]) :
              /\ calls[r][i].db = query_generator.db
              /\ calls[r][i].collection = req[r].collection_name
         /\ pc[r] = "done" =>
              /\ envelope[r] = query(chat[r], store[r])
              /\ response[r] = process_query(query(chat[r], store[r]))

C10_Witness ==
    /\ afterFailure["w1"]
    /\ pc["w1"] = "done"
    /\ ~IsError(envelope["w1"])
    /\ Len(store["w1"].rows) = 2
    /\ pc["w2"] = "store"
    /\ req["w1"] # req["w2"]
====
